---------------------------- MODULE Spec2Model ----------------------------
(***************************************************************************)
(* Model of meshsmith's Scene (source/core/Scene.cpp): setOptions, load,   *)
(* process, getJsonReport, save, getJsonStatus and isValid.                *)
(*                                                                         *)
(* A std::string is a sequence of tokens; every token stands for one or    *)
(* more characters, so the empty string is << >> and concatenation is \o.  *)
(* Paths and swizzle specifications are spelled character by character,    *)
(* string literals of the source are one token.                            *)
(* Floating point coordinates are modelled by integers.                    *)
(***************************************************************************)
EXTENDS Integers, Sequences, FiniteSets, TLC

VARIABLES
    options,      \* Scene::_options
    pScene,       \* Scene::_pScene: NULL or the imported scene graph
    formats,      \* the list behind aiGetExportFormatCount/Description
    last,         \* name of the most recent operation on the Scene
    result,       \* Result returned by the most recent stage
    calls,        \* collaborator functions the most recent operation invoked, in order
    rangeCalls,   \* Range3f::size()/center() calls of the most recent getJsonReport()
    exportPath,   \* file path handed to the exporter by the most recent save()
    report,       \* document built by the most recent getJsonReport()
    before,       \* *_pScene as it was when the most recent operation started
    loaded        \* outcome of the most recent load(): "never", "ok" or "error"

vars == << options, pScene, formats, last, result, calls, rangeCalls,
           exportPath, report, before, loaded >>

NULL == [null |-> TRUE]

-----------------------------------------------------------------------------
(* Bounds of the model *)

MaxSwizzleLen == 3
MaxPathLen == 3
MaxVerts == 2
MaxFaces == 1
MaxMeshes == 2

-----------------------------------------------------------------------------
(* Strings *)

RECURSIVE StringsUpTo(_, _)
StringsUpTo(chars, n) ==
    IF n = 0 THEN { << >> }
    ELSE LET shorter == StringsUpTo(chars, n - 1)
         IN  shorter \cup { Append(s, c) : s \in shorter, c \in chars }

\* std::string::find_last_of(c): the last position of c (1-based), 0 for npos
find_last_of(s, c) ==
    LET hits == { i \in 1..Len(s) : s[i] = c }
    IN  IF hits = {} THEN 0 ELSE CHOOSE i \in hits : \A j \in hits : j <= i

\* std::string::substr(0, pos) for the pos find_last_of returned; npos keeps all
substr0(s, pos) == IF pos = 0 THEN s ELSE SubSeq(s, 1, pos - 1)

-----------------------------------------------------------------------------
(* Result and the status document *)

Result_ok == [isError |-> FALSE, message |-> << >>]
Result_error(msg) == [isError |-> TRUE, message |-> msg]

getJsonStatus_inverted(errorMessage) ==
    IF errorMessage = << >>
    THEN [type |-> "status", status |-> "error", error |-> errorMessage]
    ELSE [type |-> "status", status |-> "ok"]

getJsonStatus(errorMessage) ==
    IF errorMessage # << >>
    THEN [type |-> "status", status |-> "error", error |-> errorMessage]
    ELSE [type |-> "status", status |-> "ok"]

-----------------------------------------------------------------------------
(* Geometry: vectors, Range3f, meshes *)

Zero3 == << 0, 0, 0 >>
Axes == 1..3

SetMin(S) == CHOOSE x \in S : \A y \in S : x <= y
SetMax(S) == CHOOSE x \in S : \A y \in S : y <= x

InvalidRange == [valid |-> FALSE, min |-> Zero3, max |-> Zero3]

\* Range3f::uniteWith
uniteWith(a, b) ==
    IF ~a.valid THEN b
    ELSE IF ~b.valid THEN a
    ELSE [valid |-> TRUE,
          min |-> [k \in Axes |-> IF a.min[k] <= b.min[k] THEN a.min[k] ELSE b.min[k]],
          max |-> [k \in Axes |-> IF a.max[k] >= b.max[k] THEN a.max[k] ELSE b.max[k]]]

\* Range3f::size and Range3f::center; degenerate (zero) on an invalid range
Range_size(r) == IF r.valid THEN [k \in Axes |-> r.max[k] - r.min[k]] ELSE Zero3
Range_center(r) == IF r.valid THEN [k \in Axes |-> (r.max[k] + r.min[k]) \div 2] ELSE Zero3

\* Processor::calculateBoundingBox(pMesh)
calculateBoundingBox(mesh) ==
    IF Len(mesh.mVertices) = 0 THEN InvalidRange
    ELSE [valid |-> TRUE,
          min |-> [k \in Axes |-> SetMin({ mesh.mVertices[i][k] : i \in 1..Len(mesh.mVertices) })],
          max |-> [k \in Axes |-> SetMax({ mesh.mVertices[i][k] : i \in 1..Len(mesh.mVertices) })]]

RECURSIVE sceneBox(_)
sceneBox(meshes) ==
    IF meshes = << >> THEN InvalidRange
    ELSE uniteWith(sceneBox(SubSeq(meshes, 1, Len(meshes) - 1)),
                   calculateBoundingBox(meshes[Len(meshes)]))

\* an imported mesh with n vertices and f faces, with or without normals and UVs
MakeMesh(n, f, attrs) ==
    [mVertices |-> [i \in 1..n |-> << i, 3 - 2 * i, i * i >>],
     mNormals |-> IF attrs THEN [i \in 1..n |-> << 0, i - 1, 2 - i >>] ELSE << >>,
     mTextureCoords |-> IF attrs THEN [i \in 1..n |-> << i % 2, (i + 1) % 2 >>] ELSE << >>,
     mNumFaces |-> f]

MeshPool == { MakeMesh(n, f, a) : n \in 0..MaxVerts, f \in 0..MaxFaces, a \in BOOLEAN }

RECURSIVE ScenesUpTo(_)
ScenesUpTo(n) ==
    IF n = 0 THEN { << >> }
    ELSE LET shorter == ScenesUpTo(n - 1)
         IN  shorter \cup { Append(s, m) : s \in shorter, m \in MeshPool }

\* the scene graphs the importer may hand back: aiScene::mMeshes
AllScenes == { [mMeshes |-> ms] : ms \in ScenesUpTo(MaxMeshes) }

MapVertices(scene, f(_)) ==
    [mMeshes |-> [i \in 1..Len(scene.mMeshes) |->
        [scene.mMeshes[i] EXCEPT
            !.mVertices = [j \in 1..Len(scene.mMeshes[i].mVertices) |->
                               f(scene.mMeshes[i].mVertices[j])]]]]

MapNormals(scene, f(_)) ==
    [mMeshes |-> [i \in 1..Len(scene.mMeshes) |->
        [scene.mMeshes[i] EXCEPT
            !.mNormals = [j \in 1..Len(scene.mMeshes[i].mNormals) |->
                              f(scene.mMeshes[i].mNormals[j])]]]]

-----------------------------------------------------------------------------
(* Processor: the transform operations process() delegates to *)

AxisLetters == { "X", "Y", "Z" }
SwizzleChars == AxisLetters \cup { "-" }
AxisIndex(c) == IF c = "X" THEN 1 ELSE IF c = "Y" THEN 2 ELSE 3

\* a swizzle specification read as signed axis letters; a "-" that no axis
\* letter follows reads as the entry "?"
RECURSIVE ParseSwizzle(_)
ParseSwizzle(s) ==
    IF s = << >> THEN << >>
    ELSE IF Head(s) = "-"
         THEN IF Len(s) >= 2 /\ s[2] \in AxisLetters
              THEN << [axis |-> s[2], neg |-> TRUE] >> \o ParseSwizzle(SubSeq(s, 3, Len(s)))
              ELSE << [axis |-> "?", neg |-> TRUE] >>
         ELSE << [axis |-> Head(s), neg |-> FALSE] >> \o ParseSwizzle(Tail(s))

\* a valid permutation-with-sign of the three axes
ValidSwizzle(s) ==
    LET p == ParseSwizzle(s)
    IN  Len(p) = 3 /\ { p[i].axis : i \in 1..Len(p) } = AxisLetters

SwizzleVec(p, v) ==
    [k \in Axes |-> IF p[k].neg THEN 0 - v[AxisIndex(p[k].axis)] ELSE v[AxisIndex(p[k].axis)]]

\* Processor::swizzle: remaps positions and normals; an invalid specification
\* is a ConfigError and leaves the graph as it is
Processor_swizzle(scene, order) ==
    IF ValidSwizzle(order)
    THEN LET p == ParseSwizzle(order)
             f(v) == SwizzleVec(p, v)
         IN  [scene |-> MapNormals(MapVertices(scene, f), f), result |-> Result_ok]
    ELSE [scene |-> scene,
          result |-> Result_error(<< "invalid swizzle specification: " >> \o order)]

\* Processor::scale
Processor_scale(scene, factor) ==
    LET f(v) == [k \in Axes |-> factor * v[k]]
    IN  MapVertices(scene, f)

\* Processor::translate
Processor_translate(scene, t) ==
    LET f(v) == [k \in Axes |-> v[k] + t[k]]
    IN  MapVertices(scene, f)

AlignModes == { "None", "Min", "Center", "Max" }

AlignOffset(mode, lo, hi) ==
    IF mode = "Min" THEN 0 - lo
    ELSE IF mode = "Max" THEN 0 - hi
    ELSE IF mode = "Center" THEN 0 - ((lo + hi) \div 2)
    ELSE 0

\* Processor::align: bounds are recomputed from the current geometry
Processor_align(scene, alignX, alignY, alignZ) ==
    LET box == sceneBox(scene.mMeshes)
        modes == << alignX, alignY, alignZ >>
    IN  IF ~box.valid THEN scene
        ELSE Processor_translate(scene,
                 [k \in Axes |-> AlignOffset(modes[k], box.min[k], box.max[k])])

\* a 4x4 affine matrix: its 3x3 linear part and its translation column
Identity == [lin |-> << << 1, 0, 0 >>, << 0, 1, 0 >>, << 0, 0, 1 >> >>, t |-> Zero3]
QuarterTurn == [lin |-> << << 0, -1, 0 >>, << 1, 0, 0 >>, << 0, 0, 1 >> >>, t |-> << 0, 0, 1 >>]
Matrices == { Identity, QuarterTurn }

MatVec(m, v) == [k \in Axes |-> m[k][1] * v[1] + m[k][2] * v[2] + m[k][3] * v[3]]

\* Processor::transform (the linear parts used here are rotations, whose
\* inverse transpose is the matrix itself)
Processor_transform(scene, matrix) ==
    LET fp(v) == [k \in Axes |-> MatVec(matrix.lin, v)[k] + matrix.t[k]]
        fn(v) == MatVec(matrix.lin, v)
    IN  MapNormals(MapVertices(scene, fp), fn)

\* Processor::flipUVs
Processor_flipUVs(scene, flipU, flipV) ==
    [mMeshes |-> [i \in 1..Len(scene.mMeshes) |->
        [scene.mMeshes[i] EXCEPT
            !.mTextureCoords = [j \in 1..Len(scene.mMeshes[i].mTextureCoords) |->
                LET uv == scene.mMeshes[i].mTextureCoords[j]
                IN  << IF flipU THEN 1 - uv[1] ELSE uv[1],
                       IF flipV THEN 1 - uv[2] ELSE uv[2] >>]]]]

-----------------------------------------------------------------------------
(* Options *)

allZero(v) == v = Zero3
isIdentity(m) == m = Identity

NoOpTransform ==
    [swizzle |-> << >>, scale |-> 1, alignX |-> "None", alignY |-> "None",
     alignZ |-> "None", translate |-> Zero3, matrix |-> Identity, flipUV |-> FALSE]

MakeOptions(io, tr) ==
    [input |-> io.input, output |-> io.output, format |-> io.format,
     swizzle |-> tr.swizzle, scale |-> tr.scale,
     alignX |-> tr.alignX, alignY |-> tr.alignY, alignZ |-> tr.alignZ,
     translate |-> tr.translate, matrix |-> tr.matrix, flipUV |-> tr.flipUV]

\* Options as default-constructed: nothing to read, nothing to do
DefaultOptions ==
    MakeOptions([input |-> << >>, output |-> << >>, format |-> << >>], NoOpTransform)

-----------------------------------------------------------------------------
(* Scene::process *)

needsSwizzle(o) == o.swizzle # << >>
needsScale(o) == o.scale # 1

needsAlign_allAxes(o) == o.alignX # "None" /\ o.alignY # "None" /\ o.alignZ # "None"

needsAlign(o) == o.alignX # "None" \/ o.alignY # "None" \/ o.alignZ # "None"
needsTranslate(o) == ~allZero(o.translate)
needsTransform(o) == ~isIdentity(o.matrix)

needsFlipUVs_inverted(o) == ~o.flipUV

needsFlipUVs(o) == o.flipUV

\* the graph, the Processor calls made and the Result of process() on scene s0
process(o, s0) ==
    LET s1 == IF needsSwizzle(o) THEN Processor_swizzle(s0, o.swizzle).scene ELSE s0
        s2 == IF needsScale(o) THEN Processor_scale(s1, o.scale) ELSE s1
        s3 == IF needsAlign(o) THEN Processor_align(s2, o.alignX, o.alignY, o.alignZ) ELSE s2
        s4 == IF needsTranslate(o) THEN Processor_translate(s3, o.translate) ELSE s3
        s5 == IF needsTransform(o) THEN Processor_transform(s4, o.matrix) ELSE s4
        s6 == IF needsFlipUVs(o) THEN Processor_flipUVs(s5, FALSE, TRUE) ELSE s5
    IN  [scene |-> s6,
         calls |-> (IF needsSwizzle(o) THEN << "swizzle" >> ELSE << >>)
                \o (IF needsScale(o) THEN << "scale" >> ELSE << >>)
                \o (IF needsAlign(o) THEN << "align" >> ELSE << >>)
                \o (IF needsTranslate(o) THEN << "translate" >> ELSE << >>)
                \o (IF needsTransform(o) THEN << "transform" >> ELSE << >>)
                \o (IF needsFlipUVs(o) THEN << "flipUVs" >> ELSE << >>),
         result |-> Result_ok]

-----------------------------------------------------------------------------
(* Scene::save *)

SpecializedIds == { << "gltfx" >>, << "glbx" >> }

isSpecialized_gltfxOnly(format) == format = << "gltfx" >>

isSpecialized(format) == format = << "gltfx" >> \/ format = << "glbx" >>

outputFilePathOf(o) == IF o.output = << >> THEN o.input ELSE o.output

\* the loop over aiGetExportFormatDescription(i): the last match stays
extensionOf_firstOnly(fmts, format) ==
    IF Len(fmts) > 0 /\ fmts[1].id = format THEN fmts[1].fileExtension ELSE << >>

extensionOf(fmts, format) ==
    LET hits == { i \in 1..Len(fmts) : fmts[i].id = format }
    IN  IF hits = {} THEN << >> ELSE fmts[SetMax(hits)].fileExtension

\* what GLTFExporter::exportScene may return
GltfOutcomes == { Result_ok, Result_error(<< "failed to write glTF file" >>) }

\* what Assimp::Exporter::Export may return, with GetErrorString()
AssimpOutcomes ==
    { [success |-> TRUE, errorString |-> << >>],
      [success |-> FALSE, errorString |-> << >>],
      [success |-> FALSE, errorString |-> << "could not open output file" >>] }

\* the Result of save(), the exporter calls made and the path handed over
save(o, fmts, gltf, assimp) ==
    LET outputFilePath == outputFilePathOf(o)
        dotPos == find_last_of(outputFilePath, ".")
        baseFilePath == substr0(outputFilePath, dotPos)
        extension == extensionOf(fmts, o.format)
        genericPath == baseFilePath \o << "." >> \o extension
    IN  IF isSpecialized(o.format)
        THEN [calls |-> << "GLTFExporter::exportScene" >>,
              exportPath |-> outputFilePath,
              result |-> IF gltf.isError THEN gltf ELSE Result_ok]
        ELSE IF extension = << >>
        THEN [calls |-> << >>,
              exportPath |-> << >>,
              result |-> Result_error(<< "invalid output format id: " >> \o o.format)]
        ELSE [calls |-> << "Exporter::Export" >>,
              exportPath |-> genericPath,
              result |-> IF ~assimp.success
                         THEN Result_error(<< "failed to write output file: " >> \o genericPath
                                           \o << ", reason: " >> \o assimp.errorString)
                         ELSE Result_ok]

-----------------------------------------------------------------------------
(* Scene::getJsonReport *)

sumVertices_lastOnly(meshes, n) ==
    IF n = 0 THEN 0 ELSE Len(meshes[n].mVertices)

RECURSIVE sumVertices(_, _)
sumVertices(meshes, n) ==
    IF n = 0 THEN 0 ELSE sumVertices(meshes, n - 1) + Len(meshes[n].mVertices)

RECURSIVE sumFaces(_, _)
sumFaces(meshes, n) ==
    IF n = 0 THEN 0 ELSE sumFaces(meshes, n - 1) + meshes[n].mNumFaces

jsonGeometry(box) ==
    [boundingBox |-> [min |-> box.min, max |-> box.max],
     size |-> Range_size(box), center |-> Range_center(box)]

jsonMesh(mesh) ==
    [statistics |-> [numVertices |-> Len(mesh.mVertices),
                     numFaces |-> mesh.mNumFaces,
                     hasNormals |-> Len(mesh.mVertices) > 0 /\ mesh.mNormals # << >>,
                     hasTexCoords |-> Len(mesh.mVertices) > 0 /\ mesh.mTextureCoords # << >>],
     geometry |-> jsonGeometry(calculateBoundingBox(mesh))]

replaceBackslashes(path) ==
    [i \in 1..Len(path) |-> IF path[i] = "\\" THEN "/" ELSE path[i]]

getJsonReport(o, scene) ==
    LET meshes == scene.mMeshes
        numMeshes == Len(meshes)
    IN  [type |-> "report",
         filePath |-> replaceBackslashes(o.input),
         meshes |-> [i \in 1..numMeshes |-> jsonMesh(meshes[i])],
         scene |-> [statistics |-> [numVertices |-> sumVertices(meshes, numMeshes),
                                    numFaces |-> sumFaces(meshes, numMeshes),
                                    numMeshes |-> Len(meshes)],
                    geometry |-> jsonGeometry(sceneBox(meshes))]]

\* getJsonReport() asks a box for size() and center() without asking isValid()
sizeAndCenter(box) ==
    << [fn |-> "size", valid |-> box.valid, checked |-> FALSE],
       [fn |-> "center", valid |-> box.valid, checked |-> FALSE] >>

RECURSIVE meshRangeCalls(_, _)
meshRangeCalls(meshes, n) ==
    IF n = 0 THEN << >>
    ELSE meshRangeCalls(meshes, n - 1) \o sizeAndCenter(calculateBoundingBox(meshes[n]))

reportRangeCalls(scene) ==
    meshRangeCalls(scene.mMeshes, Len(scene.mMeshes)) \o sizeAndCenter(sceneBox(scene.mMeshes))

NoReport == [type |-> "none"]

-----------------------------------------------------------------------------
(* The inputs the runs draw from *)

PathChars == { "a", ".", "/" }
Paths == StringsUpTo(PathChars, MaxPathLen) \ { << >> }
ModelPath == << "a", ".", "a" >>

\* formats as aiGetExportFormatDescription lists them: unique ids, each with
\* a file extension; the last one is a generic format under a specialized id
FormatRegistry ==
    << [id |-> << "obj" >>, fileExtension |-> << "obj" >>],
       [id |-> << "stlb" >>, fileExtension |-> << "stl" >>],
       [id |-> << "gltf2" >>, fileExtension |-> << "gltf" >>],
       [id |-> << "glbx" >>, fileExtension |-> << "glb" >>] >>

RECURSIVE SubLists(_)
SubLists(list) ==
    IF list = << >> THEN { << >> }
    ELSE LET rest == SubLists(Tail(list))
         IN  rest \cup { << Head(list) >> \o r : r \in rest }

FormatLists == SubLists(FormatRegistry)

FormatIds ==
    { << >>, << "obj" >>, << "stlb" >>, << "gltf2" >>, << "gltfx" >>, << "glbx" >>, << "xyz" >> }

ModelIO == [input |-> ModelPath, output |-> << >>, format |-> << "obj" >>]

TransformParams(swizzles, alignments) ==
    { [swizzle |-> s, scale |-> c, alignX |-> a[1], alignY |-> a[2], alignZ |-> a[3],
       translate |-> t, matrix |-> m, flipUV |-> f] :
         s \in swizzles, c \in { 1, 2 }, a \in alignments,
         t \in { Zero3, << 0, 0, 1 >> }, m \in Matrices, f \in BOOLEAN }

\* every swizzle string with a few alignments, and every alignment with a few
\* swizzle strings
ProcessOptions ==
    { MakeOptions(ModelIO, t) :
        t \in TransformParams(StringsUpTo(SwizzleChars, MaxSwizzleLen),
                              { << "None", "None", "None" >>, << "None", "Center", "None" >> })
          \cup TransformParams({ << >>, << "Z", "X", "Y" >>, << "X", "X", "Z" >> },
                               AlignModes \X AlignModes \X AlignModes) }

ProcessScenes == { [mMeshes |-> << MakeMesh(2, 1, TRUE), MakeMesh(1, 0, FALSE) >>] }

\* the no-op configuration and configurations with exactly one step in use
ReportOptions ==
    { MakeOptions(ModelIO, t) :
        t \in { NoOpTransform,
                [NoOpTransform EXCEPT !.swizzle = << "Z", "X", "Y" >>],
                [NoOpTransform EXCEPT !.scale = 2],
                [NoOpTransform EXCEPT !.alignX = "Min"],
                [NoOpTransform EXCEPT !.translate = << 0, 0, 1 >>],
                [NoOpTransform EXCEPT !.matrix = QuarterTurn],
                [NoOpTransform EXCEPT !.flipUV = TRUE] } }

\* every path as the input, or as the explicit output, with every format id
SaveOptions ==
    { MakeOptions(io, NoOpTransform) :
        io \in { [input |-> p, output |-> << >>, format |-> f] : p \in Paths, f \in FormatIds }
          \cup { [input |-> ModelPath, output |-> p, format |-> f] : p \in Paths, f \in FormatIds } }

\* configurations whose steps can repeat without the coordinates growing
LifeOptions ==
    { MakeOptions([ModelIO EXCEPT !.format = f], t) :
        f \in { << "obj" >>, << "gltfx" >>, << "xyz" >> },
        t \in { NoOpTransform,
                [NoOpTransform EXCEPT !.swizzle = << "Y", "X", "Z" >>],
                [NoOpTransform EXCEPT !.flipUV = TRUE] } }

LifeScenes == { [mMeshes |-> << >>], [mMeshes |-> << MakeMesh(2, 1, TRUE) >>] }

\* Importer::GetErrorString() after a failed ReadFile
ImporterErrors == { << >>, << "unable to open file" >> }

-----------------------------------------------------------------------------
(* The operations of Scene *)

isValid == pScene # NULL

\* Scene::Scene
InitWith(lists) ==
    /\ options = DefaultOptions
    /\ pScene = NULL
    /\ formats \in lists
    /\ last = "Scene"
    /\ result = Result_ok
    /\ calls = << >>
    /\ rangeCalls = << >>
    /\ exportPath = << >>
    /\ report = NoReport
    /\ before = NULL
    /\ loaded = "never"

Init == InitWith({ FormatRegistry })
InitSave == InitWith(FormatLists)

\* the order in which the pipeline driver calls into one Scene
CanFollow(prev, op) ==
    \/ op = "setOptions" /\ prev = "Scene"
    \/ op = "load" /\ prev = "setOptions"
    \/ op = "process" /\ prev = "load"
    \/ op = "getJsonReport" /\ prev = "process"
    \/ op = "save" /\ prev \in { "process", "getJsonReport" }

\* Scene::setOptions
setOptions(domain) ==
    /\ \E o \in domain : options' = o
    /\ last' = "setOptions"
    /\ result' = Result_ok
    /\ calls' = << >>
    /\ rangeCalls' = << >>
    /\ exportPath' = << >>
    /\ report' = NoReport
    /\ before' = pScene
    /\ UNCHANGED << pScene, formats, loaded >>

load_keepsOldScene(scenes) ==
    /\ \/ \E sc \in scenes :
            /\ pScene' = sc
            /\ result' = Result_ok
            /\ loaded' = "ok"
       \/ \E errorString \in ImporterErrors :
            /\ pScene' = pScene
            /\ result' = Result_error(<< "failed to read input file: " >> \o options.input
                                      \o << ", reason: " >> \o errorString)
            /\ loaded' = "error"
    /\ last' = "load"
    /\ calls' = << "Importer::ReadFile" >>
    /\ rangeCalls' = << >>
    /\ exportPath' = << >>
    /\ report' = NoReport
    /\ before' = pScene
    /\ UNCHANGED << options, formats >>

\* Scene::load: ReadFile hands back a scene graph or nullptr
load(scenes) ==
    /\ \/ \E sc \in scenes :
            /\ pScene' = sc
            /\ result' = Result_ok
            /\ loaded' = "ok"
       \/ \E errorString \in ImporterErrors :
            /\ pScene' = NULL
            /\ result' = Result_error(<< "failed to read input file: " >> \o options.input
                                      \o << ", reason: " >> \o errorString)
            /\ loaded' = "error"
    /\ last' = "load"
    /\ calls' = << "Importer::ReadFile" >>
    /\ rangeCalls' = << >>
    /\ exportPath' = << >>
    /\ report' = NoReport
    /\ before' = pScene
    /\ UNCHANGED << options, formats >>

\* Scene::process, on a scene that is present
Process ==
    /\ isValid
    /\ LET run == process(options, pScene)
       IN  /\ pScene' = run.scene
           /\ calls' = run.calls
           /\ result' = run.result
    /\ last' = "process"
    /\ rangeCalls' = << >>
    /\ exportPath' = << >>
    /\ report' = NoReport
    /\ before' = pScene
    /\ UNCHANGED << options, formats, loaded >>

\* Scene::getJsonReport, on a scene that is present
GetJsonReport ==
    /\ isValid
    /\ report' = getJsonReport(options, pScene)
    /\ rangeCalls' = reportRangeCalls(pScene)
    /\ calls' = [i \in 1..Len(pScene.mMeshes) |-> "calculateBoundingBox"]
    /\ last' = "getJsonReport"
    /\ result' = Result_ok
    /\ exportPath' = << >>
    /\ before' = pScene
    /\ UNCHANGED << options, pScene, formats, loaded >>

\* Scene::save, on a scene that is present
Save ==
    /\ isValid
    /\ \E gltf \in GltfOutcomes, assimp \in AssimpOutcomes :
         LET run == save(options, formats, gltf, assimp)
         IN  /\ calls' = run.calls
             /\ exportPath' = run.exportPath
             /\ result' = run.result
    /\ last' = "save"
    /\ rangeCalls' = << >>
    /\ report' = NoReport
    /\ before' = pScene
    /\ UNCHANGED << options, pScene, formats, loaded >>

-----------------------------------------------------------------------------
(* One run of the pipeline per Scene: setOptions, load, process, optionally  *)
(* getJsonReport, save                                                      *)

RunProcess == CanFollow(last, "process") /\ Process
RunGetJsonReport == CanFollow(last, "getJsonReport") /\ GetJsonReport
RunSave == CanFollow(last, "save") /\ Save

ProcessSetOptions == CanFollow(last, "setOptions") /\ setOptions(ProcessOptions)
ProcessLoad == CanFollow(last, "load") /\ load(ProcessScenes)
NextProcess == ProcessSetOptions \/ ProcessLoad \/ RunProcess \/ RunGetJsonReport \/ RunSave
SpecProcess == Init /\ [][NextProcess]_vars

ReportSetOptions == CanFollow(last, "setOptions") /\ setOptions(ReportOptions)
ReportLoad == CanFollow(last, "load") /\ load(AllScenes)
NextReport == ReportSetOptions \/ ReportLoad \/ RunProcess \/ RunGetJsonReport \/ RunSave
SpecReport == Init /\ [][NextReport]_vars

SaveSetOptions == CanFollow(last, "setOptions") /\ setOptions(SaveOptions)
SaveLoad == CanFollow(last, "load") /\ load(ProcessScenes)
NextSave == SaveSetOptions \/ SaveLoad \/ RunProcess \/ RunGetJsonReport \/ RunSave
SpecSave == InitSave /\ [][NextSave]_vars

(* Any sequence of operations on one Scene *)

LifeSetOptions == setOptions(LifeOptions)
LifeLoad == load(LifeScenes)
NextLife == LifeSetOptions \/ LifeLoad \/ Process \/ GetJsonReport \/ Save
SpecLife == Init /\ [][NextLife]_vars

-----------------------------------------------------------------------------
(* Properties *)

StepOrder == << "swizzle", "scale", "align", "translate", "transform", "flipUVs" >>

Configured(step) ==
    \/ step = "swizzle" /\ Len(options.swizzle) > 0
    \/ step = "scale" /\ options.scale # 1
    \/ step = "align" /\ { options.alignX, options.alignY, options.alignZ } # { "None" }
    \/ step = "translate" /\ options.translate # << 0, 0, 0 >>
    \/ step = "transform" /\ options.matrix # Identity
    \/ step = "flipUVs" /\ options.flipUV

Invoked(fn) == \E i \in 1..Len(calls) : calls[i] = fn

\* C1: process() invokes the transform operations in the order swizzle, scale,
\* align, translate, transform, flipUVs, each at most once and exactly when
\* its configuration is not a no-op.
C1_FixedOrder ==
    last = "process" => calls = SelectSeq(StepOrder, Configured)

C1_Witness ==
    /\ last = "process"
    /\ calls = StepOrder
    /\ options.alignX = "None" /\ options.alignZ = "None"

\* C4: with a non-empty swizzle specification that is no valid
\* permutation-with-sign of the three axes, process() returns an error and
\* applies none of the later steps.
C4_InvalidSwizzleFails ==
    (last = "process" /\ options.swizzle # << >> /\ ~ValidSwizzle(options.swizzle))
        => /\ result.isError
           /\ \A i \in 2..Len(StepOrder) : ~Invoked(StepOrder[i])

IsNoOp ==
    /\ options.swizzle = << >> /\ options.scale = 1
    /\ options.alignX = "None" /\ options.alignY = "None" /\ options.alignZ = "None"
    /\ options.translate = << 0, 0, 0 >> /\ options.matrix = Identity /\ ~options.flipUV

\* C7: with the no-op configuration process() invokes no transform operation,
\* returns ok and leaves every vertex attribute and every count as it was.
C7_NoOpLeavesScene ==
    (last = "process" /\ IsNoOp)
        => /\ calls = << >>
           /\ ~result.isError
           /\ pScene = before

C7_Witness ==
    /\ last = "process" /\ IsNoOp
    /\ Len(pScene.mMeshes) = 2
    /\ Len(pScene.mMeshes[1].mVertices) = 2
    /\ pScene.mMeshes[1].mTextureCoords # << >>

RECURSIVE SumOf(_, _)
SumOf(entries, field) ==
    IF entries = << >> THEN 0
    ELSE entries[1].statistics[field] + SumOf(Tail(entries), field)

\* C8: the report has one entry per mesh in scene order, the scene-wide
\* vertex and face counts are the sums of the per-mesh counts, numMeshes is
\* the number of entries, and a scene without meshes reports zeros.
C8_ReportCounts ==
    last = "getJsonReport" =>
        /\ Len(report.meshes) = Len(pScene.mMeshes)
        /\ \A i \in 1..Len(pScene.mMeshes) :
             /\ report.meshes[i].statistics.numVertices = Len(pScene.mMeshes[i].mVertices)
             /\ report.meshes[i].statistics.numFaces = pScene.mMeshes[i].mNumFaces
        /\ report.scene.statistics.numVertices = SumOf(report.meshes, "numVertices")
        /\ report.scene.statistics.numFaces = SumOf(report.meshes, "numFaces")
        /\ report.scene.statistics.numMeshes = Len(report.meshes)
        /\ (pScene.mMeshes = << >> =>
              /\ report.meshes = << >>
              /\ report.scene.statistics.numVertices = 0
              /\ report.scene.statistics.numFaces = 0
              /\ report.scene.statistics.numMeshes = 0)

C8_Witness ==
    /\ last = "getJsonReport"
    /\ Len(report.meshes) = 2
    /\ report.meshes[1].statistics.numVertices = 2
    /\ report.meshes[2].statistics.numVertices = 1
    /\ report.scene.statistics.numVertices = 3
    /\ report.scene.statistics.numFaces = 1

\* C9: getJsonReport() never asks an invalid bounding box for its size or
\* its center without having checked its validity.
C9_NoUncheckedRangeCall ==
    \A i \in 1..Len(rangeCalls) : rangeCalls[i].valid \/ rangeCalls[i].checked

\* C10: isValid() holds exactly when the most recent load() returned ok,
\* load() returns ok exactly when it leaves a scene present, and process(),
\* save() and getJsonReport() leave isValid() as it was.
C10_ValidIffLoaded ==
    /\ isValid <=> loaded = "ok"
    /\ last = "Scene" => ~isValid
    /\ last = "load" => (~result.isError <=> isValid)
    /\ last \in { "process", "save", "getJsonReport" } => (isValid <=> before # NULL)

C10_Witness ==
    last = "load" /\ before # NULL /\ result.isError /\ ~isValid

FormatListed == \E i \in 1..Len(formats) : formats[i].id = options.format

\* C2: a specialized format id sends save() to the specialized exporter alone,
\* whatever the generic format list holds; any other id never reaches the
\* specialized exporter; no run invokes both, failed or not.
C2_ExclusivePaths ==
    last = "save" =>
        /\ options.format \in SpecializedIds => calls = << "GLTFExporter::exportScene" >>
        /\ options.format \notin SpecializedIds => ~Invoked("GLTFExporter::exportScene")
        /\ ~(Invoked("GLTFExporter::exportScene") /\ Invoked("Exporter::Export"))

C2_Witness ==
    /\ last = "save"
    /\ options.format = << "glbx" >>
    /\ FormatListed
    /\ result.isError
    /\ calls = << "GLTFExporter::exportScene" >>

InvalidFormatError == Result_error(<< "invalid output format id: " >> \o options.format)

\* C3: for an id that is neither specialized nor in the generic format list
\* save() returns the error "invalid output format id: <id>" and invokes no
\* exporter; for a listed id that is not specialized it does not return it.
C3_InvalidFormat ==
    (last = "save" /\ options.format \notin SpecializedIds) =>
        IF FormatListed
        THEN result # InvalidFormatError
        ELSE result = InvalidFormatError /\ calls = << >> /\ exportPath = << >>

C3_Witness ==
    /\ last = "save"
    /\ options.format = << "xyz" >>
    /\ result = InvalidFormatError
    /\ calls = << >>

\* the path with the extension of its file name replaced
ReplaceExtension(path, ext) ==
    LET slash == find_last_of(path, "/")
        dot == find_last_of(path, ".")
    IN  (IF dot > slash THEN SubSeq(path, 1, dot - 1) ELSE path) \o << "." >> \o ext

\* C5: the generic exporter is handed P with its file extension replaced by
\* the matched format's extension, P being the explicit output path if there
\* is one and the input path otherwise; also when P's file name has no
\* extension or P's only '.' is in a directory component.
C5_ExtensionReplaced ==
    (last = "save" /\ Invoked("Exporter::Export")) =>
        \E i \in 1..Len(formats) :
            /\ formats[i].id = options.format
            /\ exportPath = ReplaceExtension(
                   IF options.output # << >> THEN options.output ELSE options.input,
                   formats[i].fileExtension)

=============================================================================
